---- MODULE Spec2Model ----
(***************************************************************************)
(* Model of specialized-pipeline/docai_utils.py: the batch partitioner     *)
(* (create_batches), the batch submitter (_batch_process_documents), the   *)
(* result harvester (get_document_protos_from_gcs), the entity flattener   *)
(* (extract_document_entities) and the archiver (cleanup_gcs).             *)
(* Each component has its own specification over the shared variables.     *)
(***************************************************************************)
EXTENDS Integers, Sequences, FiniteSets, TLC

VARIABLES
    \* ---- create_batches / _batch_process_documents ----
    entry,          \* which function the caller invoked
    blob_list,      \* what storage_client.list_blobs would return (listing order)
    batch_size,     \* the batch_size argument
    pc,             \* position in the code
    listed,         \* TRUE once list_blobs has been requested
    idx,            \* position of the `for blob in blob_list` loop
    batches,        \* local `batches`
    batch,          \* local `batch`
    skipped,        \* diagnostics printed for skipped blobs
    bi,             \* position of the `for i, batch in enumerate(batches)` loop
    jobs,           \* jobs the processing service has received, in order
    operation_ids,  \* local `operation_ids`
    result,         \* outcome of the call: "none", "ok" or the error raised
    returned,       \* value returned to the caller (<<>> until then)
    \* ---- extract_document_entities ----
    document,       \* the document argument: its entity list
    fl_pc,
    fl_idx,
    document_entities, \* local dict `document_entities`
    \* ---- cleanup_gcs ----
    generation,     \* storage: live generation of each (bucket, key), 0 = no object
    data,           \* storage: contents of the live object of each (bucket, key)
    noncurrent,     \* storage: noncurrent versions <<bucket, key, generation>>
    versioning,     \* storage: whether the buckets keep noncurrent versions
    next_generation,\* storage: generation given to the next object written
    args,           \* the five arguments of cleanup_gcs
    cl_pc,
    delete_queue,   \* local `delete_queue`
    intermediate_files, \* what the listing of the output directory returned
    source_blobs,   \* what the listing of the input prefix returned
    cl_i,           \* position of the copy loop
    cl_d,           \* position of the delete loop
    cl_result,      \* outcome of the invocation
    cl_run,         \* number of the invocation (1 = first, 2 = re-run, ...)
    cl_copied,      \* history: blobs copied to the archive by this invocation
    cl_deleted,     \* history: blobs deleted by this invocation
    cl_before,      \* history: storage when this invocation started
    cl_prev,        \* history: outcome of the previous invocation
    \* ---- get_document_protos_from_gcs ----
    hv_blobs,       \* what the listing of the output directory returns
    hv_pc,
    hv_idx,         \* position of the `for blob in blob_list` loop
    document_protos,\* local `document_protos`
    hv_diag,        \* diagnostics printed for skipped blobs
    hv_result       \* outcome of the call

bvars == <<entry, blob_list, batch_size, pc, listed, idx, batches, batch,
           skipped, bi, jobs, operation_ids, result, returned>>
fvars == <<document, fl_pc, fl_idx, document_entities>>
cvars == <<generation, data, noncurrent, versioning, next_generation, args,
           cl_pc, delete_queue, intermediate_files, source_blobs, cl_i, cl_d,
           cl_result, cl_run, cl_copied, cl_deleted, cl_before, cl_prev>>
hvars == <<hv_blobs, hv_pc, hv_idx, document_protos, hv_diag, hv_result>>
vars == <<bvars, fvars, cvars, hvars>>

(***************************************************************************)
(* Bounds of the model                                                     *)
(***************************************************************************)
MaxBlobs == 4
MaxEntities == 2
MaxRuns == 2
MaxRecords == 2

(***************************************************************************)
(* consts.py (imported at lines 10-17; the module itself is not among the  *)
(* sources, so the ceiling and the content types are small stand-ins)      *)
(***************************************************************************)
BATCH_MAX_FILES == 3
ACCEPTED_MIME_TYPES == {"application/pdf", "image/tiff"}
MimeTypes == {"application/pdf", "image/tiff", "text/plain"}

\* smallest batch size the caller may pass (nothing in the code forbids <= 0)
MinBatchSize == 0 - 1
BatchSizes == MinBatchSize .. (BATCH_MAX_FILES + 1)

(***************************************************************************)
(* Helpers                                                                 *)
(***************************************************************************)
SeqsUpTo(S, n) == UNION {[1..k -> S] : k \in 0..n}

RECURSIVE Concat(_)
Concat(ss) == IF ss = <<>> THEN <<>> ELSE Head(ss) \o Concat(Tail(ss))

RECURSIVE SelectSeq2(_, _)
\* the elements of s whose content type is in the set T, in order
SelectSeq2(s, T) ==
    IF s = <<>> THEN <<>>
    ELSE (IF Head(s).content_type \in T THEN <<Head(s)>> ELSE <<>>)
             \o SelectSeq2(Tail(s), T)

Ceil(n, b) == (n + b - 1) \div b

(***************************************************************************)
(* create_batches                                                          *)
(***************************************************************************)
\* line 50: the validation of batch_size
ExceedsCeiling_NoCheck(size) == FALSE
ExceedsCeiling(size) == size > BATCH_MAX_FILES

\* line 63: the content-type filter
Accepted_All(blob) == TRUE
Accepted(blob) == blob.content_type \in ACCEPTED_MIME_TYPES

\* line 67: the test that closes the open batch
BatchIsFull_OffByOne(b, size) == Len(b) + 1 = size
BatchIsFull(b, size) == Len(b) = size

\* lines 72-75: the document reference built for a blob
GcsDocument(blob) == [gcs_uri |-> blob.name, mime_type |-> blob.content_type]

\* listings: blob names are unique (the name of the i-th listed blob is i)
Listings ==
    {[i \in 1..Len(ct) |-> [name |-> i, content_type |-> ct[i]]] :
        ct \in SeqsUpTo(MimeTypes, MaxBlobs)}

\* the call enters create_batches (directly, or from line 106)
CB_Validate ==
    /\ pc = "cb_validate"
    /\ IF ExceedsCeiling(batch_size)
         THEN /\ pc' = "raised"
              /\ result' = "ValueError"
         ELSE /\ pc' = "cb_list"
              /\ UNCHANGED result
    /\ UNCHANGED <<entry, blob_list, batch_size, listed, idx, batches, batch,
                   skipped, bi, jobs, operation_ids, returned>>
    /\ UNCHANGED <<fvars, cvars, hvars>>

\* line 56: the listing is requested
CB_List ==
    /\ pc = "cb_list"
    /\ listed' = TRUE
    /\ idx' = 1
    /\ batches' = <<>>
    /\ batch' = <<>>
    /\ pc' = "cb_loop"
    /\ UNCHANGED <<entry, blob_list, batch_size, skipped, bi, jobs,
                   operation_ids, result, returned>>
    /\ UNCHANGED <<fvars, cvars, hvars>>

\* line 56/61: the storage service fails the listing
CB_ListFail ==
    /\ pc = "cb_list"
    /\ listed' = TRUE
    /\ pc' = "raised"
    /\ result' = "StorageError"
    /\ UNCHANGED <<entry, blob_list, batch_size, idx, batches, batch,
                   skipped, bi, jobs, operation_ids, returned>>
    /\ UNCHANGED <<fvars, cvars, hvars>>

\* lines 61-76: one iteration of the loop over the listing
CB_Loop ==
    /\ pc = "cb_loop"
    /\ idx <= Len(blob_list)
    /\ LET blob == blob_list[idx] IN
         IF ~Accepted(blob)
           THEN /\ skipped' = Append(skipped, blob.name)
                /\ UNCHANGED <<batches, batch>>
           ELSE /\ IF BatchIsFull(batch, batch_size)
                     THEN /\ batches' = Append(batches, batch)
                          /\ batch' = <<GcsDocument(blob)>>
                     ELSE /\ batch' = Append(batch, GcsDocument(blob))
                          /\ UNCHANGED batches
                /\ UNCHANGED skipped
    /\ idx' = idx + 1
    /\ UNCHANGED <<entry, blob_list, batch_size, pc, listed, bi, jobs,
                   operation_ids, result, returned>>
    /\ UNCHANGED <<fvars, cvars, hvars>>

\* line 78: the open batch is appended whatever its size
FinalAppend_NonEmptyOnly(bs, b) == IF b = <<>> THEN bs ELSE Append(bs, b)
FinalAppend(bs, b) == Append(bs, b)

\* lines 78-80: the open batch is appended and the batches are returned
CB_Return ==
    /\ pc = "cb_loop"
    /\ idx > Len(blob_list)
    /\ batches' = FinalAppend(batches, batch)
    /\ IF entry = "create_batches"
         THEN /\ pc' = "done"
              /\ result' = "ok"
              /\ returned' = batches'
              /\ UNCHANGED bi
         ELSE /\ pc' = "bp_loop"
              /\ bi' = 1
              /\ UNCHANGED <<result, returned>>
    /\ UNCHANGED <<entry, blob_list, batch_size, listed, idx, batch, skipped,
                   jobs, operation_ids>>
    /\ UNCHANGED <<fvars, cvars, hvars>>

(***************************************************************************)
(* _batch_process_documents                                                *)
(***************************************************************************)
\* lines 93-106: client and configuration are built (no request is sent),
\* then create_batches is called
BP_Setup ==
    /\ pc = "start"
    /\ pc' = "cb_validate"
    /\ UNCHANGED <<entry, blob_list, batch_size, listed, idx, batches, batch,
                   skipped, bi, jobs, operation_ids, result, returned>>
    /\ UNCHANGED <<fvars, cvars, hvars>>

\* the name the service gives to the next operation (operation.operation.name)
NextOperationName == <<"operations", Len(jobs) + 1>>

\* lines 114-123: the job the service receives for a batch
SubmittedJob_DropFirst(name, b) ==
    [name |-> name, documents |-> IF b = <<>> THEN b ELSE Tail(b),
     state |-> "running"]
SubmittedJob(name, b) == [name |-> name, documents |-> b, state |-> "running"]

\* line 124
AppendOperation_Prepend(ids, name) == <<name>> \o ids
AppendOperation(ids, name) == Append(ids, name)

\* lines 109-124: the request for batches[bi] is accepted by the service
BP_Submit ==
    /\ pc = "bp_loop"
    /\ bi <= Len(batches)
    /\ jobs' = Append(jobs, SubmittedJob(NextOperationName, batches[bi]))
    /\ operation_ids' = AppendOperation(operation_ids, NextOperationName)
    /\ pc' = "bp_wait"
    /\ UNCHANGED <<entry, blob_list, batch_size, listed, idx, batches, batch,
                   skipped, bi, result, returned>>
    /\ UNCHANGED <<fvars, cvars, hvars>>

\* lines 123, 127: nothing catches an error of the service: it leaves the
\* loop and the function
Propagate_Swallow(error) == [pc |-> "bp_loop", result |-> error]
Propagate(error) == [pc |-> "raised", result |-> error]

\* line 123: the service rejects the request
BP_SubmitFail ==
    /\ pc = "bp_loop"
    /\ bi <= Len(batches)
    /\ pc' = Propagate("SubmissionFailure").pc
    /\ result' = Propagate("SubmissionFailure").result
    /\ UNCHANGED <<entry, blob_list, batch_size, listed, idx, batches, batch,
                   skipped, bi, jobs, operation_ids, returned>>
    /\ UNCHANGED <<fvars, cvars, hvars>>

\* line 127: operation.result() returns only when the job has completed
Completed_StillRunning(job) == job
Completed(job) == [job EXCEPT !.state = "done"]

\* line 127: the wait returns, the job completed
BP_WaitDone ==
    /\ pc = "bp_wait"
    /\ jobs' = [jobs EXCEPT ![Len(jobs)] = Completed(@)]
    /\ bi' = bi + 1
    /\ pc' = "bp_loop"
    /\ UNCHANGED <<entry, blob_list, batch_size, listed, idx, batches, batch,
                   skipped, operation_ids, result, returned>>
    /\ UNCHANGED <<fvars, cvars, hvars>>

\* line 127: the job failed, the wait raises its error
BP_WaitFailed ==
    /\ pc = "bp_wait"
    /\ jobs' = [jobs EXCEPT ![Len(jobs)].state = "failed"]
    /\ pc' = Propagate("JobFailed").pc
    /\ result' = Propagate("JobFailed").result
    /\ UNCHANGED <<entry, blob_list, batch_size, listed, idx, batches, batch,
                   skipped, bi, operation_ids, returned>>
    /\ UNCHANGED <<fvars, cvars, hvars>>

\* line 127: the wait times out; the job is still running at the service
BP_WaitTimeout ==
    /\ pc = "bp_wait"
    /\ pc' = Propagate("TimeoutError").pc
    /\ result' = Propagate("TimeoutError").result
    /\ UNCHANGED <<entry, blob_list, batch_size, listed, idx, batches, batch,
                   skipped, bi, jobs, operation_ids, returned>>
    /\ UNCHANGED <<fvars, cvars, hvars>>

\* line 129
BP_Return ==
    /\ pc = "bp_loop"
    /\ bi > Len(batches)
    /\ pc' = "done"
    /\ result' = "ok"
    /\ returned' = operation_ids
    /\ UNCHANGED <<entry, blob_list, batch_size, listed, idx, batches, batch,
                   skipped, bi, jobs, operation_ids>>
    /\ UNCHANGED <<fvars, cvars, hvars>>

BatchIdle ==
    /\ entry = "none" /\ blob_list = <<>> /\ batch_size = 0 /\ pc = "idle"
    /\ listed = FALSE /\ idx = 0 /\ batches = <<>> /\ batch = <<>>
    /\ skipped = <<>> /\ bi = 0 /\ jobs = <<>> /\ operation_ids = <<>>
    /\ result = "none" /\ returned = <<>>

FlattenIdle ==
    /\ document = <<>> /\ fl_pc = "idle" /\ fl_idx = 0
    /\ document_entities = <<>>

CleanupIdle ==
    /\ generation = <<>> /\ data = <<>> /\ noncurrent = {}
    /\ versioning = FALSE /\ next_generation = 0 /\ args = <<>>
    /\ cl_pc = "idle" /\ delete_queue = <<>> /\ intermediate_files = <<>>
    /\ source_blobs = <<>> /\ cl_i = 0 /\ cl_d = 0 /\ cl_result = "none"
    /\ cl_run = 0 /\ cl_copied = {} /\ cl_deleted = {} /\ cl_before = <<>>
    /\ cl_prev = "none"

HarvestIdle ==
    /\ hv_blobs = <<>> /\ hv_pc = "idle" /\ hv_idx = 0
    /\ document_protos = <<>> /\ hv_diag = <<>> /\ hv_result = "none"

BatchInit ==
    /\ entry \in {"create_batches", "_batch_process_documents"}
    /\ blob_list \in Listings
    /\ batch_size \in BatchSizes
    /\ pc = IF entry = "create_batches" THEN "cb_validate" ELSE "start"
    /\ listed = FALSE /\ idx = 0 /\ batches = <<>> /\ batch = <<>>
    /\ skipped = <<>> /\ bi = 0 /\ jobs = <<>> /\ operation_ids = <<>>
    /\ result = "none" /\ returned = <<>>
    /\ FlattenIdle
    /\ CleanupIdle
    /\ HarvestIdle

BatchNext ==
    \/ BP_Setup
    \/ CB_Validate
    \/ CB_List
    \/ CB_ListFail
    \/ CB_Loop
    \/ CB_Return
    \/ BP_Submit
    \/ BP_SubmitFail
    \/ BP_WaitDone
    \/ BP_WaitFailed
    \/ BP_WaitTimeout
    \/ BP_Return

BatchSpec == BatchInit /\ [][BatchNext]_vars

(***************************************************************************)
(* extract_document_entities                                               *)
(***************************************************************************)
\* entity types are strings, modelled as sequences of characters
EntityTypes == {<<"a", "/", "b">>, <<"a", "_", "b">>, <<"/", "/">>, <<"c">>}
MentionTexts == {"m1", "m2"}

\* entity.normalized_value is always a message object: the default (empty)
\* message when the field is absent.  `present` is the field presence of
\* the protobuf message, which the code does not consult.
NormalizedValues ==
    { [present |-> FALSE, text |-> "",   structured |-> FALSE],
      [present |-> TRUE,  text |-> "",   structured |-> FALSE],
      [present |-> TRUE,  text |-> "",   structured |-> TRUE],
      [present |-> TRUE,  text |-> "n1", structured |-> FALSE] }

Entities == [type_ : EntityTypes, mention_text : MentionTexts,
             normalized_value : NormalizedValues]

\* line 32: str.replace("/", "_") replaces every occurrence
Replace_FirstOnly(s) ==
    [i \in 1..Len(s) |->
        IF s[i] = "/" /\ (\A j \in 1..(i - 1) : s[j] # "/") THEN "_" ELSE s[i]]
Replace(s) == [i \in 1..Len(s) |-> IF s[i] = "/" THEN "_" ELSE s[i]]

\* line 36: truth value of a message object: some field of it is set
Truthy(nv) == nv.text # "" \/ nv.structured

\* lines 35-37
EntityValue_MentionFirst(entity) == entity.mention_text
EntityValue(entity) ==
    IF Truthy(entity.normalized_value)
      THEN entity.normalized_value.text
      ELSE entity.mention_text

\* line 39: dict.update({key: value})
DictUpdate_KeepFirst(d, key, value) ==
    [k \in DOMAIN d \cup {key} |-> IF k \in DOMAIN d THEN d[k] ELSE value]
DictUpdate(d, key, value) ==
    [k \in DOMAIN d \cup {key} |-> IF k = key THEN value ELSE d[k]]

\* line 28
FL_Enter ==
    /\ fl_pc = "start"
    /\ document_entities' = <<>>
    /\ fl_idx' = 1
    /\ fl_pc' = "loop"
    /\ UNCHANGED document
    /\ UNCHANGED <<bvars, cvars, hvars>>

\* lines 30-39: one iteration of the loop over document.entities
FL_Loop ==
    /\ fl_pc = "loop"
    /\ fl_idx <= Len(document)
    /\ LET entity == document[fl_idx]
           entity_key == Replace(entity.type_)
           entity_value == EntityValue(entity)
       IN document_entities' =
              DictUpdate(document_entities, entity_key, entity_value)
    /\ fl_idx' = fl_idx + 1
    /\ UNCHANGED <<document, fl_pc>>
    /\ UNCHANGED <<bvars, cvars, hvars>>

\* line 41
FL_Return ==
    /\ fl_pc = "loop"
    /\ fl_idx > Len(document)
    /\ fl_pc' = "done"
    /\ UNCHANGED <<document, fl_idx, document_entities>>
    /\ UNCHANGED <<bvars, cvars, hvars>>

FlattenInit ==
    /\ document \in SeqsUpTo(Entities, MaxEntities)
    /\ fl_pc = "start" /\ fl_idx = 0 /\ document_entities = <<>>
    /\ BatchIdle
    /\ CleanupIdle
    /\ HarvestIdle

FlattenNext ==
    \/ FL_Enter
    \/ FL_Loop
    \/ FL_Return

FlattenSpec == FlattenInit /\ [][FlattenNext]_vars

(***************************************************************************)
(* The storage service, as cleanup_gcs uses it                             *)
(***************************************************************************)
Buckets == {"b1", "b2", "b3"}
\* object keys and prefixes are strings, modelled as sequences of characters
KeyOrder == << <<"p", "x">>, <<"q", "y">> >>
Keys == {KeyOrder[i] : i \in 1..Len(KeyOrder)}
Prefixes == {<<>>, <<"p">>}
Cells == Buckets \X Keys
\* contents are named by the place the object was first stored at
NoData == <<>>

HasPrefix(key, prefix) ==
    /\ Len(prefix) <= Len(key)
    /\ SubSeq(key, 1, Len(prefix)) = prefix

RECURSIVE ListFrom(_, _, _, _)
\* list_blobs(bucket, prefix=prefix): a handle for every live object of the
\* bucket under the prefix, in key order; a handle carries the generation
\* the object had when it was listed
ListFrom(gen, bucket, prefix, i) ==
    IF i > Len(KeyOrder) THEN <<>>
    ELSE (IF gen[<<bucket, KeyOrder[i]>>] # 0 /\ HasPrefix(KeyOrder[i], prefix)
            THEN << [bucket |-> bucket, name |-> KeyOrder[i],
                     generation |-> gen[<<bucket, KeyOrder[i]>>]] >>
            ELSE <<>>)
         \o ListFrom(gen, bucket, prefix, i + 1)

list_blobs(bucket, prefix) == ListFrom(generation, bucket, prefix, 1)

\* Blob.delete() names the generation of the handle: it succeeds when that
\* version of the object (live or noncurrent) exists and fails with NotFound
\* otherwise
VersionExists(blob) ==
    \/ generation[<<blob.bucket, blob.name>>] = blob.generation
    \/ <<blob.bucket, blob.name, blob.generation>> \in noncurrent

(***************************************************************************)
(* cleanup_gcs                                                             *)
(***************************************************************************)
\* lines 187-195: the intermediate files are listed and queued
CL_ListOutput ==
    /\ cl_pc = "list_output"
    /\ intermediate_files' = list_blobs(args.output_bucket, args.output_directory)
    /\ delete_queue' = intermediate_files'
    /\ cl_pc' = "list_input"
    /\ UNCHANGED <<generation, data, noncurrent, versioning, next_generation,
                   args, source_blobs, cl_i, cl_d, cl_result, cl_run,
                   cl_copied, cl_deleted, cl_before, cl_prev>>
    /\ UNCHANGED <<bvars, fvars, hvars>>

\* lines 190-194: the storage service fails the listing
CL_ListOutputFail ==
    /\ cl_pc = "list_output"
    /\ cl_pc' = "raised"
    /\ cl_result' = "StorageError"
    /\ UNCHANGED <<generation, data, noncurrent, versioning, next_generation,
                   args, delete_queue, intermediate_files, source_blobs, cl_i,
                   cl_d, cl_run, cl_copied, cl_deleted, cl_before, cl_prev>>
    /\ UNCHANGED <<bvars, fvars, hvars>>

\* lines 198-203: the input objects are listed
CL_ListInput ==
    /\ cl_pc = "list_input"
    /\ source_blobs' = list_blobs(args.input_bucket, args.input_prefix)
    /\ cl_i' = 1
    /\ cl_pc' = "copy"
    /\ UNCHANGED <<generation, data, noncurrent, versioning, next_generation,
                   args, delete_queue, intermediate_files, cl_d, cl_result,
                   cl_run, cl_copied, cl_deleted, cl_before, cl_prev>>
    /\ UNCHANGED <<bvars, fvars, hvars>>

\* lines 201-203: the storage service fails the listing
CL_ListInputFail ==
    /\ cl_pc = "list_input"
    /\ cl_pc' = "raised"
    /\ cl_result' = "StorageError"
    /\ UNCHANGED <<generation, data, noncurrent, versioning, next_generation,
                   args, delete_queue, intermediate_files, source_blobs, cl_i,
                   cl_d, cl_run, cl_copied, cl_deleted, cl_before, cl_prev>>
    /\ UNCHANGED <<bvars, fvars, hvars>>

\* line 208: what the queue becomes after a successful copy
Enqueue_Nothing(queue, blob) == queue
Enqueue(queue, blob) == Append(queue, blob)

\* line 207: the bucket and key the archive copy is written to
CopyDestination_Source(blob) == <<args.input_bucket, blob.name>>
CopyDestination_OneKey(blob) == <<args.archive_bucket, KeyOrder[1]>>
CopyDestination(blob) == <<args.archive_bucket, blob.name>>

\* lines 203-208: one iteration of the copy loop, the copy succeeds.
\* copy_blob copies the live object of the source key (no source generation
\* is passed) and writes a new generation of the destination key.
CL_Copy ==
    /\ cl_pc = "copy"
    /\ cl_i <= Len(source_blobs)
    /\ LET source_blob == source_blobs[cl_i]
           src == <<args.input_bucket, source_blob.name>>
           dst == CopyDestination(source_blob)
       IN IF generation[src] = 0
            THEN /\ cl_pc' = "raised"
                 /\ cl_result' = "NotFound"
                 /\ UNCHANGED <<generation, data, noncurrent, next_generation,
                                delete_queue, cl_i, cl_copied>>
            ELSE /\ generation' = [generation EXCEPT ![dst] = next_generation]
                 /\ data' = [data EXCEPT ![dst] = data[src]]
                 /\ noncurrent' =
                        IF versioning /\ generation[dst] # 0
                          THEN noncurrent \cup {<<dst[1], dst[2], generation[dst]>>}
                          ELSE noncurrent
                 /\ next_generation' = next_generation + 1
                 /\ delete_queue' = Enqueue(delete_queue, source_blob)
                 /\ cl_copied' = cl_copied \cup {source_blob}
                 /\ cl_i' = cl_i + 1
                 /\ UNCHANGED <<cl_pc, cl_result>>
    /\ UNCHANGED <<versioning, args, intermediate_files, source_blobs, cl_d,
                   cl_run, cl_deleted, cl_before, cl_prev>>
    /\ UNCHANGED <<bvars, fvars, hvars>>

\* line 207: the copy fails, copy_blob raises
CL_CopyFail ==
    /\ cl_pc = "copy"
    /\ cl_i <= Len(source_blobs)
    /\ cl_pc' = "raised"
    /\ cl_result' = "StorageError"
    /\ UNCHANGED <<generation, data, noncurrent, versioning, next_generation,
                   args, delete_queue, intermediate_files, source_blobs, cl_i,
                   cl_d, cl_run, cl_copied, cl_deleted, cl_before, cl_prev>>
    /\ UNCHANGED <<bvars, fvars, hvars>>

\* lines 203, 210: the delete loop starts when the copy loop has gone
\* through every listed input object
CopyLoopOver_Always(i, blobs) == TRUE
CopyLoopOver(i, blobs) == i > Len(blobs)

\* line 210: the copy loop is over, the delete loop starts
CL_CopyDone ==
    /\ cl_pc = "copy"
    /\ CopyLoopOver(cl_i, source_blobs)
    /\ cl_d' = 1
    /\ cl_pc' = "delete"
    /\ UNCHANGED <<generation, data, noncurrent, versioning, next_generation,
                   args, delete_queue, intermediate_files, source_blobs, cl_i,
                   cl_result, cl_run, cl_copied, cl_deleted, cl_before,
                   cl_prev>>
    /\ UNCHANGED <<bvars, fvars, hvars>>

\* lines 210-212: one iteration of the delete loop; blob.delete() raises
\* NotFound when the listed version of the object no longer exists
CL_Delete ==
    /\ cl_pc = "delete"
    /\ cl_d <= Len(delete_queue)
    /\ LET blob == delete_queue[cl_d]
           cell == <<blob.bucket, blob.name>>
       IN IF ~VersionExists(blob)
            THEN /\ cl_pc' = "raised"
                 /\ cl_result' = "NotFound"
                 /\ UNCHANGED <<generation, data, noncurrent, cl_d, cl_deleted>>
            ELSE /\ IF generation[cell] = blob.generation
                      THEN /\ generation' = [generation EXCEPT ![cell] = 0]
                           /\ data' = [data EXCEPT ![cell] = NoData]
                           /\ UNCHANGED noncurrent
                      ELSE /\ noncurrent' = noncurrent \ {<<blob.bucket, blob.name,
                                                            blob.generation>>}
                           /\ UNCHANGED <<generation, data>>
                 /\ cl_deleted' = cl_deleted \cup {blob}
                 /\ cl_d' = cl_d + 1
                 /\ UNCHANGED <<cl_pc, cl_result>>
    /\ UNCHANGED <<versioning, next_generation, args, delete_queue,
                   intermediate_files, source_blobs, cl_i, cl_run, cl_copied,
                   cl_before, cl_prev>>
    /\ UNCHANGED <<bvars, fvars, hvars>>

\* line 212: the storage service fails the delete
CL_DeleteFail ==
    /\ cl_pc = "delete"
    /\ cl_d <= Len(delete_queue)
    /\ cl_pc' = "raised"
    /\ cl_result' = "StorageError"
    /\ UNCHANGED <<generation, data, noncurrent, versioning, next_generation,
                   args, delete_queue, intermediate_files, source_blobs, cl_i,
                   cl_d, cl_run, cl_copied, cl_deleted, cl_before, cl_prev>>
    /\ UNCHANGED <<bvars, fvars, hvars>>

\* the delete loop is over, cleanup_gcs returns
CL_Return ==
    /\ cl_pc = "delete"
    /\ cl_d > Len(delete_queue)
    /\ cl_pc' = "done"
    /\ cl_result' = "ok"
    /\ UNCHANGED <<generation, data, noncurrent, versioning, next_generation,
                   args, delete_queue, intermediate_files, source_blobs, cl_i,
                   cl_d, cl_run, cl_copied, cl_deleted, cl_before, cl_prev>>
    /\ UNCHANGED <<bvars, fvars, hvars>>

\* the caller invokes cleanup_gcs again, with the same arguments, on the
\* state the previous invocation left
CL_Rerun ==
    /\ cl_pc \in {"done", "raised"}
    /\ cl_run < MaxRuns
    /\ cl_run' = cl_run + 1
    /\ cl_prev' = cl_result
    /\ cl_before' = [gen |-> generation, data |-> data]
    /\ cl_pc' = "list_output"
    /\ cl_result' = "none"
    /\ delete_queue' = <<>> /\ intermediate_files' = <<>> /\ source_blobs' = <<>>
    /\ cl_i' = 0 /\ cl_d' = 0 /\ cl_copied' = {} /\ cl_deleted' = {}
    /\ UNCHANGED <<generation, data, noncurrent, versioning, next_generation,
                   args>>
    /\ UNCHANGED <<bvars, fvars, hvars>>

\* the ways the three bucket arguments can coincide (up to renaming buckets)
BucketChoices ==
    { <<"b1", "b1", "b1">>, <<"b1", "b1", "b2">>, <<"b1", "b2", "b1">>,
      <<"b1", "b2", "b2">>, <<"b1", "b2", "b3">> }

CleanupInit ==
    /\ \E bs \in BucketChoices, ip \in Prefixes, od \in Prefixes :
          args = [input_bucket |-> bs[1], input_prefix |-> ip,
                  output_bucket |-> bs[2], output_directory |-> od,
                  archive_bucket |-> bs[3]]
    /\ \E present \in SUBSET Cells :
          /\ \A c \in present : c[1] \in {args.input_bucket, args.output_bucket,
                                          args.archive_bucket}
          /\ generation = [c \in Cells |-> IF c \in present THEN 1 ELSE 0]
          /\ data = [c \in Cells |-> IF c \in present THEN c ELSE NoData]
    /\ noncurrent = {}
    /\ versioning \in BOOLEAN
    /\ next_generation = 2
    /\ cl_pc = "list_output" /\ cl_result = "none" /\ cl_run = 1
    /\ delete_queue = <<>> /\ intermediate_files = <<>> /\ source_blobs = <<>>
    /\ cl_i = 0 /\ cl_d = 0 /\ cl_copied = {} /\ cl_deleted = {}
    /\ cl_before = [gen |-> generation, data |-> data]
    /\ cl_prev = "none"
    /\ BatchIdle
    /\ FlattenIdle
    /\ HarvestIdle

CleanupNext ==
    \/ CL_ListOutput
    \/ CL_ListOutputFail
    \/ CL_ListInput
    \/ CL_ListInputFail
    \/ CL_Copy
    \/ CL_CopyFail
    \/ CL_CopyDone
    \/ CL_Delete
    \/ CL_DeleteFail
    \/ CL_Return
    \/ CL_Rerun

CleanupSpec == CleanupInit /\ [][CleanupNext]_vars

(***************************************************************************)
(* get_document_protos_from_gcs                                            *)
(***************************************************************************)
\* blob names are strings, modelled as sequences of pieces
BlobNames == { <<"doc", ".json">>, <<"doc", ".txt">>, <<"doc", ".json", ".bak">> }

\* line 149: `".json" in blob.name` is a substring test
NameHasJson_Suffix(name) == name[Len(name)] = ".json"
NameHasJson(name) == \E i \in 1..Len(name) : name[i] = ".json"

\* what a blob holds: text that is not JSON, a JSON array, or a JSON object
\* with some of the fields "pages" and "text" and possibly a field "bogus"
\* that the document schema does not have
RecordFields == {"pages", "text", "bogus"}
BlobContents ==
    {[json |-> "invalid", fields |-> {}], [json |-> "array", fields |-> {}]}
        \cup {[json |-> "object", fields |-> f] : f \in SUBSET RecordFields}

\* lines 155-159: `del` of "pages", then of "text", until a KeyError
RemoveLargeFields_Both(fields) == fields \ {"pages", "text"}
RemoveLargeFields(fields) ==
    IF "pages" \notin fields THEN fields
    ELSE IF "text" \notin fields THEN fields \ {"pages"}
    ELSE fields \ {"pages", "text"}

\* lines 161-163: Document.from_json rejects what the schema does not have
ParseFails(fields) == "bogus" \in fields

HarvestListings ==
    {[i \in 1..Len(bs) |-> [name |-> bs[i][1], contents |-> bs[i][2], id |-> i]] :
        bs \in SeqsUpTo(BlobNames \X BlobContents, MaxRecords)}

\* line 141-145: the listing is requested
HV_List ==
    /\ hv_pc = "start"
    /\ document_protos' = <<>>
    /\ hv_idx' = 1
    /\ hv_pc' = "loop"
    /\ UNCHANGED <<hv_blobs, hv_diag, hv_result>>
    /\ UNCHANGED <<bvars, fvars, cvars>>

\* line 141-145: the storage service fails the listing
HV_ListFail ==
    /\ hv_pc = "start"
    /\ hv_pc' = "raised"
    /\ hv_result' = "StorageError"
    /\ UNCHANGED <<hv_blobs, hv_idx, document_protos, hv_diag>>
    /\ UNCHANGED <<bvars, fvars, cvars>>

\* lines 169-170: a blob whose name does not contain ".json"
HV_SkipName ==
    /\ hv_pc = "loop"
    /\ hv_idx <= Len(hv_blobs)
    /\ ~NameHasJson(hv_blobs[hv_idx].name)
    /\ hv_diag' = Append(hv_diag, [blob |-> hv_blobs[hv_idx].id,
                                   note |-> "Skipping non-supported file type"])
    /\ hv_idx' = hv_idx + 1
    /\ UNCHANGED <<hv_blobs, hv_pc, document_protos, hv_result>>
    /\ UNCHANGED <<bvars, fvars, cvars>>

\* line 151: the download fails
HV_DownloadFail ==
    /\ hv_pc = "loop"
    /\ hv_idx <= Len(hv_blobs)
    /\ NameHasJson(hv_blobs[hv_idx].name)
    /\ hv_pc' = "raised"
    /\ hv_result' = "StorageError"
    /\ UNCHANGED <<hv_blobs, hv_idx, document_protos, hv_diag>>
    /\ UNCHANGED <<bvars, fvars, cvars>>

\* lines 151-168: a blob whose name contains ".json" is downloaded, decoded,
\* stripped and parsed
HV_Record ==
    /\ hv_pc = "loop"
    /\ hv_idx <= Len(hv_blobs)
    /\ NameHasJson(hv_blobs[hv_idx].name)
    /\ LET blob == hv_blobs[hv_idx]
           document_dict == RemoveLargeFields(blob.contents.fields)
       IN IF blob.contents.json = "invalid"
            \* line 152: json.loads raises, nothing catches it
            THEN /\ hv_pc' = "raised"
                 /\ hv_result' = "JSONDecodeError"
                 /\ UNCHANGED <<hv_idx, document_protos, hv_diag>>
          ELSE IF blob.contents.json = "array"
            \* line 156: `del` on a list raises TypeError, not KeyError
            THEN /\ hv_pc' = "raised"
                 /\ hv_result' = "TypeError"
                 /\ UNCHANGED <<hv_idx, document_protos, hv_diag>>
          ELSE IF ParseFails(document_dict)
            \* lines 164-166
            THEN /\ hv_diag' = Append(hv_diag, [blob |-> blob.id,
                                                note |-> "Failed to parse"])
                 /\ hv_idx' = hv_idx + 1
                 /\ UNCHANGED <<hv_pc, hv_result, document_protos>>
            \* line 168
            ELSE /\ document_protos' =
                        Append(document_protos,
                               [blob |-> blob.id, fields |-> document_dict])
                 /\ hv_idx' = hv_idx + 1
                 /\ UNCHANGED <<hv_pc, hv_result, hv_diag>>
    /\ UNCHANGED hv_blobs
    /\ UNCHANGED <<bvars, fvars, cvars>>

\* line 172
HV_Return ==
    /\ hv_pc = "loop"
    /\ hv_idx > Len(hv_blobs)
    /\ hv_pc' = "done"
    /\ hv_result' = "ok"
    /\ UNCHANGED <<hv_blobs, hv_idx, document_protos, hv_diag>>
    /\ UNCHANGED <<bvars, fvars, cvars>>

HarvestInit ==
    /\ hv_blobs \in HarvestListings
    /\ hv_pc = "start" /\ hv_idx = 0 /\ document_protos = <<>>
    /\ hv_diag = <<>> /\ hv_result = "none"
    /\ BatchIdle
    /\ FlattenIdle
    /\ CleanupIdle

HarvestNext ==
    \/ HV_List
    \/ HV_ListFail
    \/ HV_SkipName
    \/ HV_DownloadFail
    \/ HV_Record
    \/ HV_Return

HarvestSpec == HarvestInit /\ [][HarvestNext]_vars

(***************************************************************************)
(* Properties of extract_document_entities                                 *)
(***************************************************************************)
\* an entity type with every "/" replaced by "_"
Normalized(t) == [i \in 1..Len(t) |-> IF t[i] = "/" THEN "_" ELSE t[i]]

\* the last entity of the document whose normalized type is k
LastWith(k) ==
    document[CHOOSE i \in 1..Len(document) :
                /\ Normalized(document[i].type_) = k
                /\ \A j \in (i + 1)..Len(document) :
                      Normalized(document[j].type_) # k]

NormalizedTypes == {Normalized(document[i].type_) : i \in 1..Len(document)}

CBReturned ==
    \/ pc \in {"bp_loop", "bp_wait", "done"}
    \/ pc = "raised" /\ result \in {"SubmissionFailure", "JobFailed", "TimeoutError"}

\* the accepted objects of the listing, in listing order, as document references
AcceptedDocs ==
    LET acc == SelectSeq2(blob_list, ACCEPTED_MIME_TYPES) IN
    [i \in 1..Len(acc) |->
        [gcs_uri |-> acc[i].name, mime_type |-> acc[i].content_type]]

NAccepted == Len(AcceptedDocs)

\* the documents of all jobs the service has received, in submission order
SubmittedDocs == Concat([k \in 1..Len(jobs) |-> jobs[k].documents])

Occurrences(s, x) == Cardinality({i \in 1..Len(s) : s[i] = x})

\* C1 as stated: for 1 <= B <= ceiling create_batches returns ceil(N/B)
\* batches plus one trailing empty batch, and the concatenation of the
\* batches is the accepted objects, each once, in listing order.
C1_TrailingEmptyBatch ==
    (CBReturned /\ batch_size \in 1..BATCH_MAX_FILES) =>
        /\ Len(batches) = Ceil(NAccepted, batch_size) + 1
        /\ batches[Len(batches)] = <<>>
        /\ Concat(batches) = AcceptedDocs

\* C1 amended: for 1 <= B <= ceiling create_batches returns ceil(N/B)
\* batches when N > 0 and exactly one (empty) batch when N = 0: an empty
\* trailing batch exists only when nothing was accepted.  The concatenation
\* of the batches is the accepted objects, each once, in listing order.
C1_BatchCount ==
    (CBReturned /\ batch_size \in 1..BATCH_MAX_FILES) =>
        /\ Len(batches) = IF NAccepted = 0 THEN 1
                          ELSE Ceil(NAccepted, batch_size)
        /\ (batches[Len(batches)] = <<>>) <=> (NAccepted = 0)
        /\ Concat(batches) = AcceptedDocs
        /\ \A d \in {AcceptedDocs[i] : i \in 1..NAccepted} :
              Occurrences(Concat(batches), d) = 1

C1_Witness ==
    /\ entry = "create_batches" /\ pc = "done" /\ result = "ok"
    /\ batch_size = 2 /\ NAccepted = 4 /\ Len(returned) = 2
    /\ Len(returned[2]) = 2

\* C2 as stated: for every batch size that passes the validation
\* (batch_size <= ceiling) every returned batch has between 1 and batch_size
\* elements, except that the final batch may be empty when nothing was
\* accepted.
C2_BatchSizeWithinBounds ==
    CBReturned =>
        \A k \in 1..Len(batches) :
            /\ Len(batches[k]) <= batch_size
            /\ \/ Len(batches[k]) >= 1
               \/ k = Len(batches) /\ NAccepted = 0

\* C3: with batch_size above the ceiling the call fails with the
\* invalid-configuration error (ValueError) and nothing else happens: no
\* listing is requested, no batch is produced, no job is submitted.
C3_RejectsOversizedBatch ==
    batch_size > BATCH_MAX_FILES =>
        /\ ~listed
        /\ batches = <<>> /\ batch = <<>>
        /\ jobs = <<>> /\ operation_ids = <<>> /\ returned = <<>>
        /\ pc \in {"start", "cb_validate", "raised"}
        /\ pc = "raised" => result = "ValueError"
        /\ result \in {"none", "ValueError"}

C3_Witness ==
    /\ entry = "_batch_process_documents"
    /\ batch_size > BATCH_MAX_FILES
    /\ blob_list # <<>>
    /\ pc = "raised" /\ result = "ValueError"

\* the call of _batch_process_documents is over (returned or raised)
BPEnded == entry = "_batch_process_documents" /\ pc \in {"done", "raised"}

\* C4 as stated: in a run of _batch_process_documents every accepted object
\* is in the input list of exactly one submitted job.
C4_EveryRunSubmitsAll ==
    (BPEnded /\ CBReturned) =>
        \A i \in 1..NAccepted : Occurrences(SubmittedDocs, AcceptedDocs[i]) = 1

\* C4 amended: in a run of _batch_process_documents that returns normally
\* every accepted object is in the input list of exactly one submitted job;
\* in every run, finished or not, no accepted object is submitted twice and
\* nothing but accepted objects is submitted.
C4_SubmittedExactlyOnce ==
    /\ \A i \in 1..NAccepted : Occurrences(SubmittedDocs, AcceptedDocs[i]) <= 1
    /\ \A j \in 1..Len(SubmittedDocs) :
          \E i \in 1..NAccepted : SubmittedDocs[j] = AcceptedDocs[i]
    /\ (entry = "_batch_process_documents" /\ pc = "done") =>
          \A i \in 1..NAccepted :
              Occurrences(SubmittedDocs, AcceptedDocs[i]) = 1

C4_Witness ==
    /\ entry = "_batch_process_documents" /\ pc = "done"
    /\ NAccepted = 3 /\ Len(blob_list) = 4 /\ batch_size = 2
    /\ Len(jobs) = 2

\* C9: when _batch_process_documents returns (every job completed) it has
\* submitted exactly one job per batch of create_batches, in batch order,
\* and the returned list holds the operation names of those jobs in
\* submission order: same length as the batches, k-th element the job of
\* the k-th batch.
C9_OneJobPerBatchInOrder ==
    (entry = "_batch_process_documents" /\ pc = "done") =>
        /\ Len(jobs) = Len(batches)
        /\ Len(returned) = Len(batches)
        /\ \A k \in 1..Len(batches) :
              /\ jobs[k].documents = batches[k]
              /\ jobs[k].state = "done"
              /\ returned[k] = jobs[k].name
        /\ \A k, l \in 1..Len(jobs) : k # l => jobs[k].name # jobs[l].name

C9_Witness ==
    /\ entry = "_batch_process_documents" /\ pc = "done"
    /\ Len(batches) = 3 /\ Len(returned) = 3
    /\ batches[1] # batches[2]

(***************************************************************************)
(* Properties of cleanup_gcs                                               *)
(***************************************************************************)
\* the blob is one of the objects cleanup_gcs is asked to archive
IsInputObject(blob) ==
    /\ blob.bucket = args.input_bucket
    /\ HasPrefix(blob.name, args.input_prefix)

\* this invocation has copied the object of the handle to the archive
CopySucceeded(blob) ==
    \E c \in cl_copied : c.bucket = blob.bucket /\ c.name = blob.name

\* the archive holds, under the key of the handle, the contents the object
\* had when this invocation started
ArchiveHolds(blob) ==
    /\ generation[<<args.archive_bucket, blob.name>>] # 0
    /\ data[<<args.archive_bucket, blob.name>>] =
           cl_before.data[<<blob.bucket, blob.name>>]

\* C5 as stated: the delete of an input object is preceded by a successful
\* copy of that object to the archive, and an input object whose copy did
\* not succeed is never queued for deletion or deleted.
C5_NeverQueuedBeforeCopy ==
    /\ \A blob \in cl_deleted :
          IsInputObject(blob) => CopySucceeded(blob) /\ ArchiveHolds(blob)
    /\ \A i \in 1..Len(delete_queue) :
          IsInputObject(delete_queue[i]) => CopySucceeded(delete_queue[i])

\* C5 amended: the delete of an input object is preceded by a successful
\* copy of that object to the archive, and an input object whose copy did
\* not succeed is never deleted and never queued for deletion as an input
\* object (line 208); it is in the delete queue before its copy only when
\* the listing of the output directory also returned it.
C5_CopyBeforeDelete ==
    /\ \A blob \in cl_deleted :
          IsInputObject(blob) => CopySucceeded(blob) /\ ArchiveHolds(blob)
    /\ \A i \in 1..Len(delete_queue) :
          (IsInputObject(delete_queue[i]) /\ ~CopySucceeded(delete_queue[i]))
              => /\ i <= Len(intermediate_files)
                 /\ delete_queue[i] = intermediate_files[i]
                 /\ delete_queue[i] \notin cl_deleted

C5_Witness ==
    /\ cl_run = 1 /\ cl_pc = "delete"
    /\ args.archive_bucket = "b3"
    /\ Len(source_blobs) = 2
    /\ \E blob \in cl_deleted : IsInputObject(blob)

\* the contents of the archive bucket, key by key
ArchiveContents(gen, dat) ==
    [k \in Keys |-> IF gen[<<args.archive_bucket, k>>] = 0 THEN NoData
                    ELSE dat[<<args.archive_bucket, k>>]]

\* C8 as stated: for every choice of the arguments, when cleanup_gcs
\* returns normally every object listed under the input prefix exists in
\* the archive bucket under the same key and no longer exists at its input
\* location, and every object listed under the output directory is deleted.
C8_MovedForEveryChoice ==
    cl_pc = "done" =>
        /\ \A i \in 1..Len(source_blobs) :
              /\ ArchiveHolds(source_blobs[i])
              /\ generation[<<args.input_bucket, source_blobs[i].name>>] = 0
        /\ \A i \in 1..Len(intermediate_files) :
              generation[<<args.output_bucket, intermediate_files[i].name>>] = 0

\* C8 amended: the same, for every choice of the arguments in which the
\* archive bucket is neither the input bucket nor the output bucket.
C8_MovedToSeparateArchive ==
    (cl_pc = "done" /\ args.archive_bucket \notin {args.input_bucket,
                                                   args.output_bucket}) =>
        /\ \A i \in 1..Len(source_blobs) :
              /\ ArchiveHolds(source_blobs[i])
              /\ generation[<<args.input_bucket, source_blobs[i].name>>] = 0
        /\ \A i \in 1..Len(intermediate_files) :
              generation[<<args.output_bucket, intermediate_files[i].name>>] = 0

C8_Witness ==
    /\ cl_run = 1 /\ cl_pc = "done"
    /\ args.archive_bucket = "b3"
    /\ Len(source_blobs) = 2 /\ Len(intermediate_files) = 1
    /\ Cardinality(cl_deleted) = 3

\* C7 as stated: a second run on the state left by a first run, complete or
\* stopped part-way, raises no error other than already-deleted conditions
\* and leaves the archive contents unchanged.
C7_RerunLeavesArchiveUnchanged ==
    cl_run = 2 =>
        /\ cl_result \in {"none", "ok", "NotFound", "StorageError"}
        /\ ArchiveContents(generation, data) =
               ArchiveContents(cl_before.gen, cl_before.data)

\* C7 amended: when the archive bucket is not the output bucket, a re-run
\* on the state left by the previous run, complete or stopped part-way,
\* raises no error other than already-deleted conditions (and new storage
\* failures), never removes an archive object and never archives an object
\* under a different key: an archive key either keeps its contents or gets
\* the contents of the input object of the same key.  After a previous run
\* that completed, the archive contents are unchanged.
C7_RerunIdempotent ==
    (cl_run >= 2 /\ args.archive_bucket # args.output_bucket) =>
        /\ \A k \in Keys :
              LET a == <<args.archive_bucket, k>>
                  i == <<args.input_bucket, k>>
              IN \/ generation[a] = 0 /\ cl_before.gen[a] = 0
                 \/ generation[a] # 0 /\ data[a] = cl_before.data[a]
                 \/ /\ generation[a] # 0 /\ cl_before.gen[i] # 0
                    /\ HasPrefix(k, args.input_prefix)
                    /\ data[a] = cl_before.data[i]
        /\ cl_prev = "ok" =>
              ArchiveContents(generation, data) =
                  ArchiveContents(cl_before.gen, cl_before.data)
        /\ cl_result = "NotFound" =>
              /\ cl_pc = "raised"
              /\ ~VersionExists(delete_queue[cl_d])

C7_Witness ==
    /\ cl_run = 2 /\ cl_pc = "done" /\ cl_prev = "StorageError"
    /\ args.archive_bucket = "b3"
    /\ \E blob \in cl_copied :
          /\ cl_before.gen[<<"b3", blob.name>>] # 0
          /\ cl_before.data[<<"b3", blob.name>>] = <<blob.bucket, blob.name>>
    /\ \E blob \in cl_copied : cl_before.gen[<<"b3", blob.name>>] = 0

(***************************************************************************)
(* Properties of get_document_protos_from_gcs                              *)
(***************************************************************************)
\* a record the harvester considers (its name says JSON)
IsCandidate(blob) == \E i \in 1..Len(blob.name) : blob.name[i] = ".json"

\* a record that parses into the document schema once the bulk fields are
\* removed
WellFormed(blob) ==
    /\ blob.contents.json = "object"
    /\ "bogus" \notin blob.contents.fields

\* the call is over and the storage service did not fail it
HarvestEnded == hv_pc \in {"done", "raised"} /\ hv_result # "StorageError"

\* C6: a malformed record never aborts the harvest: the call raises no
\* exception because of a record's contents, every well-formed record is
\* harvested whatever is listed before it, and every corrupt record gets
\* one diagnostic (one well-formed and one corrupt record: one document,
\* one diagnostic).
C6_MalformedRecordNeverAborts ==
    /\ hv_result \notin {"JSONDecodeError", "TypeError"}
    /\ HarvestEnded =>
          /\ \A i \in 1..Len(hv_blobs) :
                (IsCandidate(hv_blobs[i]) /\ WellFormed(hv_blobs[i])) =>
                    Cardinality({j \in 1..Len(document_protos) :
                                    document_protos[j].blob = i}) = 1
          /\ \A i \in 1..Len(hv_blobs) :
                (IsCandidate(hv_blobs[i]) /\ ~WellFormed(hv_blobs[i])) =>
                    Cardinality({j \in 1..Len(hv_diag) :
                                    hv_diag[j].blob = i}) = 1
          /\ Len(document_protos) =
                Cardinality({i \in 1..Len(hv_blobs) :
                    IsCandidate(hv_blobs[i]) /\ WellFormed(hv_blobs[i])})

(***************************************************************************)
(* Further properties of create_batches and _batch_process_documents       *)
(***************************************************************************)
Min(a, b) == IF a <= b THEN a ELSE b

\* the batches the accepted objects alone determine: consecutive groups of
\* batch_size accepted objects (for batch_size <= 0 no group is ever closed
\* after its first element)
PositionalBatches(docs, size) ==
    IF size >= 1
      THEN IF docs = <<>> THEN << <<>> >>
           ELSE [k \in 1..Ceil(Len(docs), size) |->
                    SubSeq(docs, (k - 1) * size + 1, Min(k * size, Len(docs)))]
      ELSE IF size = 0 /\ docs # <<>> THEN << <<>>, docs >>
           ELSE << docs >>

\* C11: no returned batch holds an object of unaccepted content type, and
\* skipped objects do not count toward the batch size: the batches are the
\* positional groups of the accepted objects alone, wherever the unaccepted
\* objects are in the listing; every unaccepted object gets one diagnostic.
C11_SkippedObjectsNotCounted ==
    CBReturned =>
        /\ \A k \in 1..Len(batches) : \A j \in 1..Len(batches[k]) :
              batches[k][j].mime_type \in ACCEPTED_MIME_TYPES
        /\ batches = PositionalBatches(AcceptedDocs, batch_size)
        /\ Len(skipped) = Len(blob_list) - NAccepted
        /\ \A j \in 1..Len(skipped) :
              blob_list[skipped[j]].content_type \notin ACCEPTED_MIME_TYPES

C11_Witness ==
    /\ entry = "create_batches" /\ pc = "done"
    /\ batch_size = 2 /\ Len(blob_list) = 4
    /\ blob_list[2].content_type = "text/plain"
    /\ NAccepted = 3
    /\ Len(returned) = 2 /\ Len(returned[1]) = 2
    /\ returned[1][2].gcs_uri = 3

\* C12: batch jobs are never in flight concurrently: at every point of the
\* run at most one submitted job has not reached a terminal state, it is
\* the last one submitted, and a job is submitted only when the waits on
\* all earlier jobs have returned successfully.
C12_OneJobInFlight ==
    /\ Cardinality({k \in 1..Len(jobs) : jobs[k].state = "running"}) <= 1
    /\ \A k \in 1..(Len(jobs) - 1) : jobs[k].state = "done"
    /\ (pc = "bp_loop" /\ result = "none") =>
          \A k \in 1..Len(jobs) : jobs[k].state = "done"

C12_Witness ==
    /\ pc = "bp_wait"
    /\ Len(jobs) = 3
    /\ jobs[1].state = "done" /\ jobs[2].state = "done"
    /\ jobs[3].state = "running"

\* a submission or a wait of _batch_process_documents has failed
BatchFailed == result \in {"SubmissionFailure", "JobFailed", "TimeoutError"}

\* C13: when the submission of batch k fails, or the wait on its job fails
\* or times out, the error reaches the caller: nothing is returned, nothing
\* more happens (no batch after k is submitted, the failed job is not
\* submitted again) and the jobs submitted are those of the batches up to k.
C13_FailurePropagates ==
    BatchFailed =>
        /\ pc = "raised"
        /\ returned = <<>>
        /\ ~ENABLED BatchNext
        /\ bi <= Len(batches)
        /\ Len(jobs) = IF result = "SubmissionFailure" THEN bi - 1 ELSE bi
        /\ \A k \in 1..Len(jobs) : jobs[k].documents = batches[k]
        /\ \A k \in 1..(bi - 1) : jobs[k].state = "done"

C13_Witness ==
    /\ BatchFailed /\ result = "TimeoutError"
    /\ bi = 2 /\ Len(batches) = 3
    /\ Len(jobs) = 2 /\ jobs[2].state = "running"

\* C17: create_batches always appends the open batch, so its result is
\* never the empty sequence; when nothing was accepted the result is exactly
\* one batch, which is empty, and _batch_process_documents submits one job
\* for that empty batch.
C17_FinalBatchAlwaysAppended ==
    CBReturned =>
        /\ Len(batches) >= 1
        /\ batches[Len(batches)] = batch
        /\ NAccepted = 0 => batches = << <<>> >>
        /\ (NAccepted = 0 /\ entry = "_batch_process_documents") =>
              /\ \A k \in 1..Len(jobs) : jobs[k].documents = <<>>
              /\ pc = "bp_loop" /\ bi = 1 => ENABLED BP_Submit
              /\ pc = "done" => Len(jobs) = 1 /\ Len(returned) = 1

C17_Witness ==
    /\ entry = "_batch_process_documents" /\ pc = "done"
    /\ Len(blob_list) = 2 /\ NAccepted = 0
    /\ batches = << <<>> >>
    /\ Len(jobs) = 1 /\ jobs[1].documents = <<>>

(***************************************************************************)
(* Further properties of cleanup_gcs                                       *)
(***************************************************************************)
\* the invocation is over and had listed both locations
CleanupEndedAfterListing == cl_pc \in {"done", "raised"} /\ cl_i >= 1

\* C14 as stated: a copy or delete failure for one object is recovered per
\* object and cleanup goes on with the remaining objects: when the
\* invocation is over, at most the failing object is left uncopied and at
\* most the failing object is left undeleted.
C14_FailureRecoveredPerObject ==
    CleanupEndedAfterListing =>
        LET failures == IF cl_result \in {"StorageError", "NotFound"}
                          THEN 1 ELSE 0
        IN /\ Cardinality({i \in 1..Len(source_blobs) :
                              source_blobs[i] \notin cl_copied}) <= failures
           /\ Cardinality({i \in 1..Len(source_blobs) :
                              source_blobs[i] \notin cl_deleted}) <= failures
           /\ Cardinality({i \in 1..Len(intermediate_files) :
                              intermediate_files[i] \notin cl_deleted}) <= failures

\* C18: all copies precede all deletes, so an invocation that a failed
\* listing or a failed copy ends has deleted nothing: every object that
\* existed before the call still exists, unchanged outside the archive
\* bucket; in the archive bucket only copies of input objects, under their
\* own keys, were written.
C18_EarlyFailureDeletesNothing ==
    /\ cl_deleted # {} =>
          /\ cl_i > Len(source_blobs)
          /\ \A i \in 1..Len(source_blobs) : source_blobs[i] \in cl_copied
    /\ (cl_pc = "raised" /\ cl_d = 0) =>
          /\ cl_deleted = {}
          /\ \A c \in Cells :
                cl_before.gen[c] # 0 =>
                    /\ generation[c] # 0
                    /\ c[1] # args.archive_bucket =>
                          /\ generation[c] = cl_before.gen[c]
                          /\ data[c] = cl_before.data[c]
                    /\ data[c] # cl_before.data[c] =>
                          data[c] = cl_before.data[<<args.input_bucket, c[2]>>]

C18_Witness ==
    /\ cl_run = 1 /\ cl_pc = "raised" /\ cl_d = 0
    /\ cl_result = "StorageError"
    /\ args.archive_bucket = "b3"
    /\ Len(source_blobs) = 2 /\ Cardinality(cl_copied) = 1
    /\ Len(intermediate_files) = 1
    /\ generation[<<"b3", source_blobs[1].name>>] # 0

(***************************************************************************)
(* Further properties of get_document_protos_from_gcs                      *)
(***************************************************************************)
\* C15: whichever of the bulk fields "pages" and "text" a raw record has,
\* both are removed before the record is parsed: no parsed document holds
\* page or text content.
C15_BulkFieldsRemoved ==
    \A j \in 1..Len(document_protos) :
        document_protos[j].fields \cap {"pages", "text"} = {}

RECURSIVE HarvestableFrom(_)
\* the positions i.. of the listing whose record is considered and parses
HarvestableFrom(i) ==
    IF i > Len(hv_blobs) THEN <<>>
    ELSE (IF IsCandidate(hv_blobs[i]) /\ WellFormed(hv_blobs[i])
            THEN <<i>> ELSE <<>>) \o HarvestableFrom(i + 1)

\* C16: the call returns, in listing order and without deduplication, one
\* document for each listed object whose name says JSON and whose contents
\* parse; every object with another name is skipped with a diagnostic.
C16_HarvestInListingOrder ==
    HarvestEnded =>
        /\ hv_result = "ok"
        /\ [j \in 1..Len(document_protos) |-> document_protos[j].blob]
               = HarvestableFrom(1)
        /\ \A i \in 1..Len(hv_blobs) :
              ~IsCandidate(hv_blobs[i]) =>
                  /\ \A j \in 1..Len(document_protos) :
                        document_protos[j].blob # i
                  /\ Cardinality({j \in 1..Len(hv_diag) :
                        hv_diag[j] = [blob |-> i,
                            note |-> "Skipping non-supported file type"]}) = 1

====
